---- MODULE Spec2Model ----
(***************************************************************************)
(* Digital library: catalog (Book), lending ledger (BorrowRecord) and the  *)
(* request handlers of app.py that borrow, return, refresh overdue status, *)
(* and add, edit and delete books.  One action per handler; the response   *)
(* of the last handled request (flash message, redirect, rendered values)  *)
(* is kept in `last`.                                                      *)
(***************************************************************************)
EXTENDS Integers, Sequences, FiniteSets, TLC

(* ------------------------------ bounds -------------------------------- *)
(* last day of the clock; highest book id; highest record id where the
   clock runs; highest record id where it is stopped or requests interleave *)
MaxTime == 15
MaxBooks == 1
MaxRecords == 2
MaxCatalogRecords == 3
(* highest book id where the ISBN is submitted in several written forms *)
MaxIsbnBooks == 2

(* days the clock may advance between two requests *)
TickDays == {10, 14, 15}

(* units the clock may advance between the two readings of one borrow_book *)
Elapsed == {0, 1}

(* ------------------------- program constants -------------------------- *)
BorrowDays == 14
QuantityMin == 1
QuantityMax == 1000
IsbnLenMin == 10
IsbnLenMax == 13
RecentLimit == 10
UsernameLenMin == 3
UsernameLenMax == 20
PasswordLenMin == 8

(* accounts created by init_db: the librarian and the three students *)
Users == {1, 2, 3, 4}
InitialUsers ==
    [u \in Users |->
        CASE u = 1 -> [username |-> "admin", email |-> "admin@library.com",
                       role |-> "librarian"]
          [] u = 2 -> [username |-> "john_doe", email |-> "john@student.com",
                       role |-> "student"]
          [] u = 3 -> [username |-> "jane_smith", email |-> "jane@student.com",
                       role |-> "student"]
          [] u = 4 -> [username |-> "bob_wilson", email |-> "bob@student.com",
                       role |-> "student"]]

(* the accounts that send requests where the clock runs or requests interleave *)
Active == {1, 2, 3}

(* values submitted in the quantity field of BookForm *)
QuantityInputs == {0, 1, 2, 5}

(* values submitted in the isbn field of BookForm *)
IsbnPlain == <<"0", "3", "0", "6", "4", "0", "6", "1", "5", "2">>
IsbnLetter == <<"0", "8", "0", "4", "4", "2", "9", "5", "7", "X">>
IsbnInputs == {IsbnPlain, IsbnLetter}

(* the ISBN of IsbnPlain written with hyphens, 13 characters *)
IsbnHyphen == <<"0", "-", "3", "0", "6", "-", "4", "0", "6", "1", "5", "-", "2">>
IsbnForms == IsbnInputs \cup {IsbnHyphen}

Digits == {"0", "1", "2", "3", "4", "5", "6", "7", "8", "9"}

(* status filters requested from the all-borrows page *)
StatusFilters == {"all", "borrowed", "overdue"}

(* values submitted in the fields of RegistrationForm *)
UsernameInputs == {"john_doe", "John_Doe", "new_user", "ab"}
WellFormedEmails == {"john@student.com", "John@student.com", "new@student.com"}
EmailInputs == WellFormedEmails \cup {"new.student.com"}
PasswordInputs == {"student123", "short"}
RoleChoices == {"student", "librarian"}

VARIABLES books, records, now, last, inflight, users

vars == <<books, records, now, last, inflight, users>>

(* current_user.role of the account with id u *)
Role == [u \in DOMAIN users |-> users[u].role]

(* ------------------------------ helpers ------------------------------- *)
SetMax(S) == CHOOSE x \in S : \A y \in S : y <= x

(* SQLite rowid of an INTEGER PRIMARY KEY without AUTOINCREMENT *)
NextId(ids) == IF ids = {} THEN 1 ELSE SetMax(ids) + 1

NoShown == [r \in {} |-> "none"]
NoView == [shown |-> NoShown, counts |-> <<>>]

Resp(op, u, arg, res) ==
    [op |-> op, user |-> u, arg |-> arg, result |-> res,
     rec |-> 0, before |-> 0, removed |-> {}, view |-> NoView]

Idle == [pc |-> "idle", book |-> 0, avail |-> 0, rec |-> 0]

(* faulty variant of is_overdue: overdue from the due date on *)
is_overdue_at_due(r, t) == IF r.status = "returned" THEN FALSE ELSE t >= r.due_date

(* BorrowRecord.is_overdue evaluated at time t *)
is_overdue(r, t) == IF r.status = "returned" THEN FALSE ELSE t > r.due_date

(* BorrowRecord.query.filter_by(...) *)
RecordsWhere(P(_)) == {r \in DOMAIN records : P(records[r])}

(* the accounts of init_db are in place; the catalog is empty (the sample
   books, never borrowed, can all be deleted) and books enter by add_book *)
Init ==
    /\ books = [b \in {} |-> 0]
    /\ records = [r \in {} |-> 0]
    /\ now = 0
    /\ last = Resp("init", 0, 0, "ok")
    /\ inflight = [u \in Users |-> Idle]
    /\ users = InitialUsers

(* the clock advances between requests *)
Tick(d) ==
    /\ now + d <= MaxTime
    /\ now' = now + d
    /\ last' = Resp("tick", 0, d, "ok")
    /\ UNCHANGED <<books, records, inflight, users>>

(* ------------------------------ borrowing ----------------------------- *)
(* the student's record of this book that the duplicate check finds *)
ExistingBorrow(u, b) ==
    {r \in DOMAIN records : /\ records[r].user_id = u
                            /\ records[r].book_id = b
                            /\ records[r].status = "borrowed"}

(* faulty variant of BorrowCheckResult: the role is not looked at *)
BorrowCheckAnyRole(u, b) ==
    IF b \notin DOMAIN books THEN "NotFound"
    ELSE IF books[b].available_quantity < 1 THEN "Unavailable"
    ELSE IF ExistingBorrow(u, b) # {} THEN "DuplicateBorrow"
    ELSE "ok"

(* faulty variant of BorrowCheckResult: a book with no copy left passes *)
BorrowCheckLax(u, b) ==
    IF Role[u] # "student" THEN "RoleDenied"
    ELSE IF b \notin DOMAIN books THEN "NotFound"
    ELSE IF books[b].available_quantity < 0 THEN "Unavailable"
    ELSE IF ExistingBorrow(u, b) # {} THEN "DuplicateBorrow"
    ELSE "ok"

(* the checks of borrow_book, in the order the handler makes them *)
BorrowCheckResult(u, b) ==
    IF Role[u] # "student" THEN "RoleDenied"
    ELSE IF b \notin DOMAIN books THEN "NotFound"
    ELSE IF books[b].available_quantity < 1 THEN "Unavailable"
    ELSE IF ExistingBorrow(u, b) # {} THEN "DuplicateBorrow"
    ELSE "ok"

(* BorrowRecord(...): borrow_date is the first reading of the clock, t1,
   and due_date is computed from a second reading, t2 *)
NewRecord(u, b, t1, t2) ==
    [user_id |-> u, book_id |-> b, borrow_date |-> t1,
     due_date |-> t2 + BorrowDays, return_date |-> <<>>, status |-> "borrowed"]

(* faulty variant of Decrement: the copy is not taken *)
DecrementForgotten(loaded) == loaded

(* book.available_quantity -= 1, on the value the handler loaded *)
Decrement(loaded) == loaded - 1

(* faulty variant of BorrowWrite: the decrement is made on the stored value,
   not on the value the handler loaded *)
BorrowWriteInDatabase(u, b, loaded, elapsed) ==
    LET id == NextId(DOMAIN records) IN
    /\ records' = records @@ (id :> NewRecord(u, b, now, now + elapsed))
    /\ books' = [books EXCEPT ![b].available_quantity = @ - 1]
    /\ last' = [Resp("borrow", u, b, "ok") EXCEPT !.rec = id, !.before = loaded]

(* the writes of borrow_book: the new record and the UPDATE of the book;
   the clock advances by elapsed between the handler's two readings of it *)
BorrowWrite(u, b, loaded, elapsed) ==
    LET id == NextId(DOMAIN records) IN
    /\ records' = records @@ (id :> NewRecord(u, b, now, now + elapsed))
    /\ books' = [books EXCEPT ![b].available_quantity = Decrement(loaded)]
    /\ last' = [Resp("borrow", u, b, "ok") EXCEPT !.rec = id, !.before = loaded]

(* borrow_book handled as one request during which the clock advances by
   elapsed between its two readings *)
BorrowBookIn(u, b, elapsed) ==
    LET res == BorrowCheckResult(u, b) IN
    /\ inflight[u].pc = "idle"
    /\ IF res = "ok"
          THEN /\ BorrowWrite(u, b, books[b].available_quantity, elapsed)
               /\ now' = now + elapsed
          ELSE /\ last' = Resp("borrow", u, b, res)
               /\ UNCHANGED <<books, records, now>>
    /\ UNCHANGED <<inflight, users>>

(* borrow_book handled within one unit of the clock: both readings agree *)
BorrowBook(u, b) == BorrowBookIn(u, b, 0)

(* ------------------------------ returning ----------------------------- *)
(* faulty variant of AlreadyReturned: the status is not looked at *)
AlreadyReturnedUnchecked(rec) == FALSE

AlreadyReturned(rec) == rec.status = "returned"

(* faulty variant of Increment: the copy is not given back *)
IncrementForgotten(q) == q

(* book.available_quantity += 1 *)
Increment(q) == q + 1

(* faulty variant of ReturnCheckResult: the requester is not looked at *)
ReturnCheckAnyone(u, r) ==
    IF r \notin DOMAIN records THEN "NotFound"
    ELSE IF AlreadyReturned(records[r]) THEN "AlreadyReturned"
    ELSE IF records[r].book_id \notin DOMAIN books THEN "ServerError"
    ELSE "ok"

(* the checks of return_book, in the order the handler makes them *)
ReturnCheckResult(u, r) ==
    IF r \notin DOMAIN records THEN "NotFound"
    ELSE IF records[r].user_id # u /\ Role[u] # "librarian" THEN "RoleDenied"
    ELSE IF AlreadyReturned(records[r]) THEN "AlreadyReturned"
    ELSE IF records[r].book_id \notin DOMAIN books THEN "ServerError"
    ELSE "ok"

ReturnBook(u, r) ==
    LET res == ReturnCheckResult(u, r) IN
    /\ inflight[u].pc = "idle"
    /\ IF res = "ok"
          THEN /\ records' = [records EXCEPT ![r].return_date = <<now>>,
                                             ![r].status = "returned"]
               /\ books' = [books EXCEPT ![records[r].book_id].available_quantity
                                             = Increment(@)]
          ELSE UNCHANGED <<books, records>>
    /\ last' = Resp("return", u, r, res)
    /\ UNCHANGED <<now, inflight, users>>

(* --------------------------- overdue refresh -------------------------- *)
(* faulty variant of Refreshed: a record found overdue is put back to borrowed *)
RefreshedToggling(S) ==
    [r \in DOMAIN records |->
        IF r \in S /\ is_overdue(records[r], now)
           THEN [records[r] EXCEPT !.status = "overdue"]
        ELSE IF records[r].status = "overdue"
           THEN [records[r] EXCEPT !.status = "borrowed"]
           ELSE records[r]]

(* for record in S: if record.is_overdue: record.status = 'overdue' *)
Refreshed(S) ==
    [r \in DOMAIN records |->
        IF r \in S /\ is_overdue(records[r], now)
           THEN [records[r] EXCEPT !.status = "overdue"]
           ELSE records[r]]

(* the rows a query with filter_by(status=...) counts in ledger recs *)
WithStatus(recs, st) == {r \in DOMAIN recs : recs[r].status = st}

(* order_by(borrow_date.desc()).limit(n): the n most recent of the ids in S *)
MostRecent(S, n) ==
    IF Cardinality(S) <= n THEN S
    ELSE CHOOSE T \in SUBSET S :
            /\ Cardinality(T) = n
            /\ \A x \in T, y \in S \ T :
                  records[x].borrow_date >= records[y].borrow_date

(* ------------------------------- views -------------------------------- *)
(* student_dashboard: refreshes the student's own borrowed records, then  *)
(* counts the overdue ones and renders the refreshed objects              *)
StudentDashboard(u) ==
    /\ inflight[u].pc = "idle"
    /\ IF Role[u] # "student"
          THEN /\ last' = Resp("student_dashboard", u, 0, "redirect")
               /\ UNCHANGED records
          ELSE LET active == {r \in WithStatus(records, "borrowed") :
                                 records[r].user_id = u}
                   after == Refreshed(active)
                   overdue == {r \in WithStatus(after, "overdue") :
                                 after[r].user_id = u}
               IN /\ records' = after
                  /\ last' = [Resp("student_dashboard", u, 0, "ok") EXCEPT
                                !.view = [shown |-> [r \in active |-> after[r].status],
                                          counts |-> <<Cardinality(overdue)>>]]
    /\ UNCHANGED <<books, now, inflight, users>>

(* my_books: lists the student's records by stored status, no refresh *)
MyBooks(u) ==
    /\ inflight[u].pc = "idle"
    /\ IF Role[u] # "student"
          THEN last' = Resp("my_books", u, 0, "redirect")
          ELSE LET mine == {r \in DOMAIN records : records[r].user_id = u}
               IN last' = [Resp("my_books", u, 0, "ok") EXCEPT
                              !.view = [shown |-> [r \in mine |-> records[r].status],
                                        counts |-> <<>>]]
    /\ UNCHANGED <<books, records, now, inflight, users>>

(* librarian_dashboard: the counts are queried first, the refresh of all  *)
(* borrowed records comes after them; the recent records are rendered     *)
(* from the refreshed objects                                             *)
LibrarianDashboard(u) ==
    /\ inflight[u].pc = "idle"
    /\ IF Role[u] # "librarian"
          THEN /\ last' = Resp("librarian_dashboard", u, 0, "RoleDenied")
               /\ UNCHANGED records
          ELSE LET overdue_books == Cardinality(WithStatus(records, "overdue"))
                   recent == MostRecent(DOMAIN records, RecentLimit)
                   after == Refreshed(WithStatus(records, "borrowed"))
               IN /\ records' = after
                  /\ last' = [Resp("librarian_dashboard", u, 0, "ok") EXCEPT
                                !.view = [shown |-> [r \in recent |-> after[r].status],
                                          counts |-> <<overdue_books>>]]
    /\ UNCHANGED <<books, now, inflight, users>>

(* all_borrows: lists the records matching the status filter, no refresh *)
AllBorrows(u, status_filter) ==
    /\ inflight[u].pc = "idle"
    /\ IF Role[u] # "librarian"
          THEN last' = Resp("all_borrows", u, 0, "RoleDenied")
          ELSE LET borrows == IF status_filter # "all"
                                 THEN WithStatus(records, status_filter)
                                 ELSE DOMAIN records
               IN last' = [Resp("all_borrows", u, 0, "ok") EXCEPT
                              !.view = [shown |-> [r \in borrows |-> records[r].status],
                                        counts |-> <<>>]]
    /\ UNCHANGED <<books, records, now, inflight, users>>

(* ------------------------------ catalog ------------------------------- *)
(* isbn.data.replace('-', '').replace(' ', '') *)
isbn_clean(isbn) == SelectSeq(isbn, LAMBDA c : c # "-" /\ c # " ")

isdigit(s) == Len(s) > 0 /\ \A i \in 1..Len(s) : s[i] \in Digits

(* BookForm.isbn: Length(min=10, max=13) and validate_isbn *)
IsbnValid(isbn) ==
    /\ Len(isbn) >= IsbnLenMin /\ Len(isbn) <= IsbnLenMax
    /\ isdigit(isbn_clean(isbn))
    /\ Len(isbn_clean(isbn)) \in {10, 13}

(* BookForm.quantity: DataRequired and NumberRange(min=1, max=1000) *)
QuantityValid(q) == q # 0 /\ q >= QuantityMin /\ q <= QuantityMax

(* Book.query.filter_by(isbn=...) *)
BooksWithIsbn(isbn) == {b \in DOMAIN books : books[b].isbn = isbn}

AddBook(u, isbn, q) ==
    /\ inflight[u].pc = "idle"
    /\ IF Role[u] # "librarian"
          THEN /\ last' = Resp("add_book", u, 0, "RoleDenied")
               /\ UNCHANGED books
       ELSE IF ~(IsbnValid(isbn) /\ QuantityValid(q))
          THEN /\ last' = Resp("add_book", u, 0, "ValidationError")
               /\ UNCHANGED books
       ELSE IF BooksWithIsbn(isbn) # {}
          THEN /\ last' = Resp("add_book", u, 0, "DuplicateIsbn")
               /\ UNCHANGED books
       ELSE LET id == NextId(DOMAIN books) IN
               /\ books' = books @@ (id :> [isbn |-> isbn, quantity |-> q,
                                            available_quantity |-> q])
               /\ last' = Resp("add_book", u, id, "ok")
    /\ UNCHANGED <<records, now, inflight, users>>

(* faulty variant of EditAvailable: a negative result is raised to 0 *)
EditAvailableClamped(quantity, available_quantity, new_quantity) ==
    LET borrowed_count == quantity - available_quantity
    IN IF new_quantity - borrowed_count < 0 THEN 0 ELSE new_quantity - borrowed_count

(* available copies after an edit of the total: the borrowed copies are kept *)
EditAvailable(quantity, available_quantity, new_quantity) ==
    LET borrowed_count == quantity - available_quantity
    IN new_quantity - borrowed_count

EditBook(u, b, isbn, q) ==
    /\ inflight[u].pc = "idle"
    /\ IF Role[u] # "librarian"
          THEN /\ last' = Resp("edit_book", u, b, "RoleDenied")
               /\ UNCHANGED books
       ELSE IF b \notin DOMAIN books
          THEN /\ last' = Resp("edit_book", u, b, "NotFound")
               /\ UNCHANGED books
       ELSE IF ~(IsbnValid(isbn) /\ QuantityValid(q))
          THEN /\ last' = Resp("edit_book", u, b, "ValidationError")
               /\ UNCHANGED books
       ELSE IF BooksWithIsbn(isbn) \ {b} # {}
          THEN \* the unique index of books.isbn fails the commit
               /\ last' = Resp("edit_book", u, b, "ServerError")
               /\ UNCHANGED books
       ELSE /\ books' = [books EXCEPT ![b] =
                            [isbn |-> isbn, quantity |-> q,
                             available_quantity |->
                                 EditAvailable(books[b].quantity,
                                               books[b].available_quantity, q)]]
            /\ last' = [Resp("edit_book", u, b, "ok") EXCEPT
                            !.before = books[b].available_quantity]
    /\ UNCHANGED <<records, now, inflight, users>>

(* the count that delete_book compares with 0 *)
active_borrows(b) ==
    Cardinality({r \in DOMAIN records : /\ records[r].book_id = b
                                        /\ records[r].status = "borrowed"})

(* cascade='all, delete-orphan' of Book.borrow_records: the records that
   are deleted with book b *)
(* faulty variant of CascadeRecords: the relationship has no cascade *)
CascadeNone(b) == {}

CascadeRecords(b) == {r \in DOMAIN records : records[r].book_id = b}

(* db.session.delete(book): the book and the records of its cascade *)
DeleteBook(u, b) ==
    /\ inflight[u].pc = "idle"
    /\ IF Role[u] # "librarian"
          THEN /\ last' = Resp("delete_book", u, b, "RoleDenied")
               /\ UNCHANGED <<books, records>>
       ELSE IF b \notin DOMAIN books
          THEN /\ last' = Resp("delete_book", u, b, "NotFound")
               /\ UNCHANGED <<books, records>>
       ELSE IF active_borrows(b) > 0
          THEN /\ last' = Resp("delete_book", u, b, "Conflict")
               /\ UNCHANGED <<books, records>>
       ELSE /\ books' = [x \in DOMAIN books \ {b} |-> books[x]]
            /\ records' = [r \in DOMAIN records \ CascadeRecords(b) |-> records[r]]
            /\ last' = [Resp("delete_book", u, b, "ok") EXCEPT
                            !.removed = CascadeRecords(b)]
    /\ UNCHANGED <<now, inflight, users>>

(* the ids in use stay within the bounds nb (books) and nr (records) *)
Within(nb, nr) ==
    /\ DOMAIN books' \subseteq 1..nb
    /\ DOMAIN records' \subseteq 1..nr

(* every handler, each request handled as a whole *)
Next ==
    \/ \E d \in TickDays : Tick(d)
    \/ \E u \in Active, b \in 1..MaxBooks :
          BorrowBook(u, b) /\ Within(MaxBooks, MaxRecords)
    \/ \E u \in Active, r \in 1..MaxRecords : ReturnBook(u, r)
    \/ \E u \in Active : StudentDashboard(u)
    \/ \E u \in Active : MyBooks(u)
    \/ \E u \in Active : LibrarianDashboard(u)
    \/ \E u \in Active, f \in StatusFilters : AllBorrows(u, f)
    \/ \E u \in Active, i \in IsbnInputs, q \in QuantityInputs :
          AddBook(u, i, q) /\ Within(MaxBooks, MaxRecords)
    \/ \E u \in Active, b \in 1..MaxBooks, i \in IsbnInputs, q \in QuantityInputs :
          EditBook(u, b, i, q)
    \/ \E u \in Active, b \in 1..MaxBooks : DeleteBook(u, b)

Spec == Init /\ [][Next]_vars

(* the catalog and lending handlers with the clock stopped: requests of
   every account, more records *)
NextCatalog ==
    \/ \E u \in Users, b \in 1..MaxBooks :
          BorrowBook(u, b) /\ Within(MaxBooks, MaxCatalogRecords)
    \/ \E u \in Users, r \in 1..MaxCatalogRecords : ReturnBook(u, r)
    \/ \E u \in Users, i \in IsbnInputs, q \in QuantityInputs :
          AddBook(u, i, q) /\ Within(MaxBooks, MaxCatalogRecords)
    \/ \E u \in Users, b \in 1..MaxBooks, i \in IsbnInputs, q \in QuantityInputs :
          EditBook(u, b, i, q)
    \/ \E u \in Users, b \in 1..MaxBooks : DeleteBook(u, b)

SpecCatalog == Init /\ [][NextCatalog]_vars

(* ------------------- borrow_book as two database steps ---------------- *)
(* Book.query.get_or_404 and the two checks: the request now holds the    *)
(* book object it loaded                                                  *)
BorrowBegin(u, b) ==
    LET res == BorrowCheckResult(u, b) IN
    /\ inflight[u].pc = "idle"
    /\ IF res = "ok"
          THEN /\ inflight' = [inflight EXCEPT ![u] =
                      [pc |-> "checked", book |-> b,
                       avail |-> books[b].available_quantity, rec |-> 0]]
               /\ UNCHANGED last
          ELSE /\ last' = Resp("borrow", u, b, res)
               /\ UNCHANGED inflight
    /\ UNCHANGED <<books, records, now, users>>

(* the flush and commit: the UPDATE writes the loaded value minus one; it *)
(* matches no row when the book was deleted meanwhile and the transaction *)
(* is rolled back                                                         *)
BorrowCommit(u) ==
    /\ inflight[u].pc = "checked"
    /\ IF inflight[u].book \in DOMAIN books
          THEN BorrowWrite(u, inflight[u].book, inflight[u].avail, 0)
          ELSE /\ last' = Resp("borrow", u, inflight[u].book, "ServerError")
               /\ UNCHANGED <<books, records>>
    /\ inflight' = [inflight EXCEPT ![u] = Idle]
    /\ UNCHANGED <<now, users>>

NextRace ==
    \/ \E u \in Active, b \in 1..MaxBooks : BorrowBegin(u, b)
    \/ \E u \in Active : BorrowCommit(u) /\ Within(MaxBooks, MaxCatalogRecords)
    \/ \E u \in Active, r \in 1..MaxCatalogRecords : ReturnBook(u, r)
    \/ \E u \in Active, i \in IsbnInputs, q \in QuantityInputs :
          AddBook(u, i, q) /\ Within(MaxBooks, MaxCatalogRecords)

SpecRace == Init /\ [][NextRace]_vars

(* ------------------- return_book as two database steps ---------------- *)
(* BorrowRecord.query.get_or_404 and the two checks: the request now holds *)
(* the record object it loaded                                             *)
ReturnBegin(u, r) ==
    LET res == ReturnCheckResult(u, r) IN
    /\ inflight[u].pc = "idle"
    /\ IF res = "ok"
          THEN /\ inflight' = [inflight EXCEPT ![u] =
                      [pc |-> "return_checked", book |-> records[r].book_id,
                       avail |-> 0, rec |-> r]]
               /\ UNCHANGED last
          ELSE /\ last' = Resp("return", u, r, res)
               /\ UNCHANGED inflight
    /\ UNCHANGED <<books, records, now, users>>

(* the writes of return_book: the record is marked returned, the book is   *)
(* loaded and its available_quantity plus one is written                   *)
ReturnCommit(u) ==
    LET r == inflight[u].rec
        b == inflight[u].book
    IN /\ inflight[u].pc = "return_checked"
       /\ IF r \in DOMAIN records /\ b \in DOMAIN books
             THEN /\ records' = [records EXCEPT ![r].return_date = <<now>>,
                                                ![r].status = "returned"]
                  /\ books' = [books EXCEPT ![b].available_quantity = Increment(@)]
                  /\ last' = [Resp("return", u, r, "ok") EXCEPT
                                 !.before = books[b].available_quantity]
             ELSE /\ last' = Resp("return", u, r, "ServerError")
                  /\ UNCHANGED <<books, records>>
       /\ inflight' = [inflight EXCEPT ![u] = Idle]
       /\ UNCHANGED <<now, users>>

NextReturnRace ==
    \/ \E u \in Active, i \in IsbnInputs, q \in QuantityInputs :
          AddBook(u, i, q) /\ Within(MaxBooks, MaxRecords)
    \/ \E u \in Active, b \in 1..MaxBooks :
          BorrowBook(u, b) /\ Within(MaxBooks, MaxRecords)
    \/ \E u \in Active, r \in 1..MaxRecords : ReturnBegin(u, r)
    \/ \E u \in Active : ReturnCommit(u)

SpecReturnRace == Init /\ [][NextReturnRace]_vars

(* ----------------------------- registration --------------------------- *)
(* the field validators of RegistrationForm: Length, Email, EqualTo *)
RegistrationFieldsValid(username, email, password, confirm_password) ==
    /\ Len(username) >= UsernameLenMin /\ Len(username) <= UsernameLenMax
    /\ email \in WellFormedEmails
    /\ Len(password) >= PasswordLenMin
    /\ confirm_password = password

(* faulty variant of validate_username: the query is not made *)
validate_username_skipped(username) == TRUE

(* RegistrationForm.validate_username: no account has this username *)
validate_username(username) ==
    \A u \in DOMAIN users : users[u].username # username

(* RegistrationForm.validate_email: no account has this email *)
validate_email(email) ==
    \A u \in DOMAIN users : users[u].email # email

(* register, requested by a visitor who is not logged in *)
Register(username, email, password, confirm_password, role) ==
    /\ IF /\ RegistrationFieldsValid(username, email, password, confirm_password)
          /\ validate_username(username)
          /\ validate_email(email)
       THEN LET id == NextId(DOMAIN users) IN
            /\ users' = users @@ (id :> [username |-> username, email |-> email,
                                         role |-> role])
            /\ inflight' = inflight @@ (id :> Idle)
            /\ last' = [Resp("register", 0, <<username, email>>, "ok") EXCEPT !.rec = id]
       ELSE /\ last' = Resp("register", 0, <<username, email>>, "ValidationError")
            /\ UNCHANGED <<users, inflight>>
    /\ UNCHANGED <<books, records, now>>

(* registration, and the catalog requests of the accounts there are *)
NextRegister ==
    \/ \E n \in UsernameInputs, e \in EmailInputs, p, c \in PasswordInputs,
          ro \in RoleChoices :
          Register(n, e, p, c, ro)
    \/ \E u \in DOMAIN users, i \in IsbnInputs, q \in QuantityInputs :
          AddBook(u, i, q) /\ Within(MaxBooks, 0)
    \/ \E u \in DOMAIN users, b \in 1..MaxBooks : DeleteBook(u, b)

SpecRegister == Init /\ [][NextRegister]_vars

(* the handlers that write records or books, the clock running also while
   borrow_book is handled *)
NextClock ==
    \/ \E d \in TickDays : Tick(d)
    \/ \E u \in Active, b \in 1..MaxBooks, e \in Elapsed :
          /\ now + e <= MaxTime
          /\ BorrowBookIn(u, b, e)
          /\ Within(MaxBooks, MaxRecords)
    \/ \E u \in Active, r \in 1..MaxRecords : ReturnBook(u, r)
    \/ \E u \in Active : StudentDashboard(u)
    \/ \E u \in Active : LibrarianDashboard(u)
    \/ \E u \in Active, i \in IsbnInputs, q \in QuantityInputs :
          AddBook(u, i, q) /\ Within(MaxBooks, MaxRecords)
    \/ \E u \in Active, b \in 1..MaxBooks, i \in IsbnInputs, q \in QuantityInputs :
          EditBook(u, b, i, q)

SpecClock == Init /\ [][NextClock]_vars

(* the catalog handlers with the ISBN submitted in every written form *)
NextIsbn ==
    \/ \E u \in Active, i \in IsbnForms, q \in QuantityInputs :
          AddBook(u, i, q) /\ Within(MaxIsbnBooks, 0)
    \/ \E u \in Active, b \in 1..MaxIsbnBooks, i \in IsbnForms, q \in QuantityInputs :
          EditBook(u, b, i, q)
    \/ \E u \in Active, b \in 1..MaxIsbnBooks : DeleteBook(u, b)

SpecIsbn == Init /\ [][NextIsbn]_vars

(* ============================== properties ============================ *)
IsOpen(rec) == rec.status \in {"borrowed", "overdue"}

OpenRecords(b) == {r \in DOMAIN records : records[r].book_id = b /\ IsOpen(records[r])}

(* C1: every catalog item has 0 <= available_quantity <= quantity in every
   state reached by add, borrow, return, refresh, edit and delete. *)
AvailableWithinTotal ==
    \A b \in DOMAIN books :
        /\ 0 <= books[b].available_quantity
        /\ books[b].available_quantity <= books[b].quantity

(* C2: a librarian's delete of a book that has a borrowed or overdue record
   is answered Conflict and leaves the catalog and the ledger unchanged. *)
DeleteRefusedWhileOpen ==
    [][\A b \in DOMAIN books :
          (/\ last'.op = "delete_book" /\ last'.arg = b
           /\ Role[last'.user] = "librarian"
           /\ OpenRecords(b) # {})
          => (last'.result = "Conflict" /\ books' = books /\ records' = records)]_vars

(* C3: each (account, item) pair has at most one record whose status is
   borrowed or overdue. *)
AtMostOneOpenRecord ==
    \A r1, r2 \in DOMAIN records :
        (/\ records[r1].user_id = records[r2].user_id
         /\ records[r1].book_id = records[r2].book_id
         /\ IsOpen(records[r1]) /\ IsOpen(records[r2]))
        => r1 = r2

(* C4: a return requested by the owner or a librarian on a record that is
   already returned is answered AlreadyReturned and changes neither the
   item's counts nor the record (status, return date). *)
ReturnIdempotent ==
    [][\A r \in DOMAIN records :
          (/\ last'.op = "return" /\ last'.arg = r
           /\ records[r].status = "returned"
           /\ (records[r].user_id = last'.user \/ Role[last'.user] = "librarian"))
          => (last'.result = "AlreadyReturned" /\ books' = books /\ records' = records)]_vars

(* C4 witness: a second return of a returned record has been answered *)
ReturnedTwice ==
    /\ last.op = "return" /\ last.result = "AlreadyReturned"
    /\ last.arg \in DOMAIN records
    /\ records[last.arg].status = "returned"

(* C5: a successful borrow followed immediately by the return of the record
   it created puts available_quantity back to its value before the borrow,
   and neither step changes quantity. *)
BorrowReturnRoundTrip ==
    [][/\ (last'.op = "borrow" /\ last'.result = "ok")
          => /\ last'.before = books[last'.arg].available_quantity
             /\ books'[last'.arg].quantity = books[last'.arg].quantity
       /\ (/\ last.op = "borrow" /\ last.result = "ok"
           /\ last'.op = "return" /\ last'.result = "ok" /\ last'.arg = last.rec)
          => /\ books'[last.arg].available_quantity = last.before
             /\ books'[last.arg].quantity = books[last.arg].quantity]_vars

(* C5 witness: the newest record was returned at the time it was borrowed *)
ReturnedRightAfterBorrow ==
    /\ last.op = "return" /\ last.result = "ok"
    /\ last.arg = SetMax(DOMAIN records)
    /\ records[last.arg].return_date = <<records[last.arg].borrow_date>>
    /\ books[records[last.arg].book_id].available_quantity
          = books[records[last.arg].book_id].quantity

StatusSteps ==
    {<<"borrowed", "overdue">>, <<"borrowed", "returned">>, <<"overdue", "returned">>}

(* C6: in every step the status of a record stays or moves along borrowed ->
   overdue, borrowed -> returned or overdue -> returned; a returned record
   keeps its status and its return date. *)
StatusMonotone ==
    [][\A r \in DOMAIN records \cap DOMAIN records' :
          /\ \/ records'[r].status = records[r].status
             \/ <<records[r].status, records'[r].status>> \in StatusSteps
          /\ records[r].status = "returned"
             => /\ records'[r].status = "returned"
                /\ records'[r].return_date = records[r].return_date]_vars

(* C6 witness: a return was requested again, at a later time, on a record
   returned after it had become overdue *)
ReturnedAfterOverdue ==
    /\ last.op = "return" /\ last.arg \in DOMAIN records
    /\ records[last.arg].status = "returned"
    /\ records[last.arg].return_date # <<now>>
    /\ \E r \in DOMAIN records : records[r].status = "overdue"

ViewOps == {"student_dashboard", "my_books", "librarian_dashboard", "all_borrows"}

(* the open records past their due date among those the view of last covers *)
PastDueInScope ==
    {r \in DOMAIN records :
        /\ IsOpen(records[r]) /\ now > records[r].due_date
        /\ last.op = "student_dashboard" => records[r].user_id = last.user}

(* C7: a rendered view shows no record as borrowed that is past its due
   date, and an overdue count it shows covers every open record past due. *)
ViewsAreRefreshed ==
    (last.op \in ViewOps /\ last.result = "ok")
    => /\ \A r \in DOMAIN last.view.shown :
             ~(last.view.shown[r] = "borrowed" /\ now > records[r].due_date)
       /\ last.view.counts # <<>>
             => last.view.counts[1] >= Cardinality(PastDueInScope)

(* C8: no step removes a lending record from the ledger. *)
RecordsNeverDeleted ==
    [][DOMAIN records \subseteq DOMAIN records']_vars

(* C8 as amended: a step removes a record exactly when it is a successful
   delete_book of the book the record references; every other record stays,
   with its account, book and dates. *)
RecordsDeletedOnlyWithBook ==
    [][\A r \in DOMAIN records :
          IF /\ last'.op = "delete_book" /\ last'.result = "ok"
             /\ records[r].book_id = last'.arg
          THEN r \notin DOMAIN records'
          ELSE /\ r \in DOMAIN records'
               /\ records'[r].user_id = records[r].user_id
               /\ records'[r].book_id = records[r].book_id
               /\ records'[r].borrow_date = records[r].borrow_date]_vars

(* C8 witness: a delete_book removed records with the book *)
DeletedWithRecords ==
    /\ last.op = "delete_book" /\ last.result = "ok"
    /\ last.removed # {}
    /\ last.removed \cap DOMAIN records = {}

(* C9: an accepted edit of the total keeps the number of copies counted as
   borrowed, new available = new total - (old total - old available), also
   when that is negative; the borrowed copies are no ground to refuse it. *)
EditKeepsBorrowedCount ==
    [][last'.op = "edit_book"
          => /\ last'.result \in {"ok", "RoleDenied", "NotFound",
                                   "ValidationError", "ServerError"}
             /\ last'.result = "ok"
                => LET old == books[last'.arg]
                       new == books'[last'.arg]
                   IN /\ new.available_quantity
                            = new.quantity - (old.quantity - old.available_quantity)
                      /\ new.quantity - new.available_quantity
                            = old.quantity - old.available_quantity]_vars

(* C9 witness: the total was edited from 5 to 2 with 3 copies borrowed *)
EditBelowBorrowed ==
    /\ last.op = "edit_book" /\ last.result = "ok"
    /\ books[last.arg].quantity = 2
    /\ books[last.arg].available_quantity = -1
    /\ last.before = 2
    /\ Cardinality(OpenRecords(last.arg)) = 3

(* two students hold open records of the single-copy book b, the later one
   written by a borrow that had loaded at least one available copy *)
LastCopyRace(b) ==
    /\ books[b].quantity = 1
    /\ last.op = "borrow" /\ last.result = "ok" /\ last.arg = b /\ last.before >= 1
    /\ \E r \in OpenRecords(b) \ {last.rec} :
          /\ last.rec \in OpenRecords(b)
          /\ records[r].user_id # records[last.rec].user_id

(* C10: when two students' borrows of the last copy of a book have both
   succeeded, leaving two open records for one copy, its available_quantity
   is below 0. *)
RaceEndsNegative ==
    \A b \in DOMAIN books : LastCopyRace(b) => books[b].available_quantity < 0

(* C10 as amended: interleaved borrows never take available_quantity below
   0; after two students' borrows of the last copy have both succeeded it is
   0, each request having written the value it loaded, 1, minus one. *)
RaceNeverNegative ==
    \A b \in DOMAIN books :
        /\ books[b].available_quantity >= 0
        /\ (LastCopyRace(b) /\ last.before = 1) => books[b].available_quantity = 0

(* C10 witness: both students loaded the last copy before either wrote, and
   both records are open *)
LastCopyBorrowedTwice ==
    \E b \in DOMAIN books :
        /\ LastCopyRace(b) /\ last.before = 1
        /\ Cardinality(OpenRecords(b)) = 2
        /\ \A r \in OpenRecords(b) : records[r].borrow_date = now

(* C11: no two books of the catalog have the same normalized ISBN (hyphens
   and spaces stripped): add_book rejects an ISBN whose normalized form is
   that of a book already in the catalog. *)
UniqueNormalizedIsbn ==
    \A b1, b2 \in DOMAIN books :
        isbn_clean(books[b1].isbn) = isbn_clean(books[b2].isbn) => b1 = b2

(* C12: the due date of every record is its borrow date plus exactly 14 days,
   from its creation on and after every return, refresh and edit. *)
DueIsBorrowPlusPeriod ==
    \A r \in DOMAIN records :
        records[r].due_date = records[r].borrow_date + BorrowDays

RefreshOps == {"student_dashboard", "librarian_dashboard"}

(* the records that the refresh answered by resp covers: the borrowed records,
   of the requesting student on the student's dashboard *)
RefreshSet(resp) ==
    {r \in DOMAIN records :
        /\ records[r].status = "borrowed"
        /\ resp.op = "student_dashboard" => records[r].user_id = resp.user}

(* C13: a refresh at time now turns into overdue exactly the records of its
   refreshed set that are borrowed with now > due_date; a borrowed record with
   now <= due_date (10 days after the borrow) stays borrowed, one refreshed 15
   days after the borrow becomes overdue, every other record is unchanged. *)
RefreshMarksExactlyPastDue ==
    [][(last'.op \in RefreshOps /\ last'.result = "ok")
          => /\ DOMAIN records' = DOMAIN records
             /\ \A r \in DOMAIN records :
                   IF r \in RefreshSet(last') /\ now > records[r].due_date
                      THEN records'[r] = [records[r] EXCEPT !.status = "overdue"]
                      ELSE records'[r] = records[r]
             /\ \A r \in RefreshSet(last') :
                   /\ now = records[r].borrow_date + 10 => records'[r].status = "borrowed"
                   /\ now = records[r].borrow_date + 15 => records'[r].status = "overdue"]_vars

(* C13 witness: one refresh, 15 days after a borrow, has made that record
   overdue and left as borrowed a record that is not past its due date *)
RefreshedAtFifteenDays ==
    /\ last.op = "librarian_dashboard" /\ last.result = "ok"
    /\ \E r1, r2 \in DOMAIN last.view.shown :
          /\ now = records[r1].borrow_date + 15
          /\ records[r1].status = "overdue" /\ last.view.shown[r1] = "overdue"
          /\ last.view.counts[1] = 0
          /\ now <= records[r2].due_date
          /\ records[r2].status = "borrowed"

(* C14: a borrow of a book with available_quantity < 1 creates no record and
   changes no count, and answers Unavailable to a student.  For a book with
   one copy: a student's borrow of the available copy leaves 0, the return of
   it leaves 1, and another student's borrow of the available copy succeeds. *)
NoCopyNoBorrow ==
    [][\A b \in DOMAIN books :
          /\ (/\ last'.op = "borrow" /\ last'.arg = b
              /\ books[b].available_quantity < 1)
             => /\ records' = records /\ books' = books
                /\ Role[last'.user] = "student" => last'.result = "Unavailable"
          /\ (/\ last'.op = "borrow" /\ last'.arg = b
              /\ Role[last'.user] = "student"
              /\ books[b].quantity = 1 /\ books[b].available_quantity = 1
              /\ \A r \in OpenRecords(b) : records[r].user_id # last'.user)
             => /\ last'.result = "ok"
                /\ books'[b].available_quantity = 0
                /\ DOMAIN records' # DOMAIN records
          /\ (/\ last'.op = "return" /\ last'.result = "ok"
              /\ records[last'.arg].book_id = b
              /\ books[b].quantity = 1 /\ books[b].available_quantity = 0)
             => books'[b].available_quantity = 1]_vars

(* C14 witness: the single copy is out with one student and another
   student's borrow has been answered Unavailable *)
SecondBorrowerTurnedAway ==
    /\ last.op = "borrow" /\ last.result = "Unavailable"
    /\ Role[last.user] = "student"
    /\ last.arg \in DOMAIN books
    /\ books[last.arg].quantity = 1 /\ books[last.arg].available_quantity = 0
    /\ Cardinality(OpenRecords(last.arg)) = 1
    /\ \A r \in OpenRecords(last.arg) : records[r].user_id # last.user

(* C15: a return requested by an account that neither owns the record nor is
   a librarian is answered RoleDenied and changes neither the record (status,
   return date) nor any count; a librarian's return of an open record of any
   student takes effect. *)
ReturnOnlyByOwnerOrLibrarian ==
    [][\A r \in DOMAIN records :
          (last'.op = "return" /\ last'.arg = r)
          => /\ (records[r].user_id # last'.user /\ Role[last'.user] # "librarian")
                => /\ last'.result = "RoleDenied"
                   /\ records' = records /\ books' = books
             /\ (Role[last'.user] = "librarian" /\ IsOpen(records[r]))
                => /\ last'.result = "ok"
                   /\ records'[r].status = "returned"
                   /\ records'[r].return_date = <<now>>
                   /\ books'[records[r].book_id].available_quantity
                         = books[records[r].book_id].available_quantity + 1
             /\ last'.result = "ok"
                => (records[r].user_id = last'.user \/ Role[last'.user] = "librarian")]_vars

(* C15 witness: a student asked to return another student's open record and
   was refused *)
StrangerRefused ==
    /\ last.op = "return" /\ last.result = "RoleDenied"
    /\ Role[last.user] = "student"
    /\ last.arg \in DOMAIN records
    /\ records[last.arg].user_id # last.user
    /\ IsOpen(records[last.arg])
    /\ records[last.arg].return_date = <<>>

(* C16: a borrow requested by an account that is not a student is answered
   RoleDenied, creates no record and changes no book, whatever the book's
   availability. *)
BorrowOnlyByStudents ==
    [][(last'.op = "borrow" /\ Role[last'.user] # "student")
          => /\ last'.result = "RoleDenied"
             /\ records' = records
             /\ books' = books]_vars

(* C16 witness: the librarian asked to borrow a book that has a copy
   available and was refused *)
LibrarianRefused ==
    /\ last.op = "borrow" /\ last.result = "RoleDenied"
    /\ Role[last.user] = "librarian"
    /\ last.arg \in DOMAIN books
    /\ books[last.arg].available_quantity >= 1
    /\ records = <<>>

(* C17: a registration whose username or whose email is exactly that of an
   existing account is answered with a validation error and creates no
   account; no two accounts have the same username or the same email. *)
RegistrationKeepsAccountsUnique ==
    [][/\ (/\ last'.op = "register"
           /\ \E u \in DOMAIN users : \/ users[u].username = last'.arg[1]
                                       \/ users[u].email = last'.arg[2])
          => (last'.result = "ValidationError" /\ users' = users)
       /\ \A u1, u2 \in DOMAIN users' :
             (\/ users'[u1].username = users'[u2].username
              \/ users'[u1].email = users'[u2].email) => u1 = u2]_vars

(* C17 witness: after an account was registered, a registration with its
   username and another email was rejected *)
TakenUsernameRejected ==
    /\ last.op = "register" /\ last.result = "ValidationError"
    /\ \E u \in DOMAIN users \ Users :
          /\ users[u].username = last.arg[1]
          /\ users[u].email # last.arg[2]
    /\ last.arg[2] \in WellFormedEmails
    /\ \A u \in DOMAIN users : users[u].email # last.arg[2]

(* C18: a refresh changes no book (quantity, available_quantity) and no
   borrow, due or return date of a record; the same refresh made again at the
   same time changes nothing at all. *)
RefreshIdempotent ==
    [][(last'.op \in RefreshOps /\ last'.result = "ok")
          => /\ books' = books
             /\ DOMAIN records' = DOMAIN records
             /\ \A r \in DOMAIN records :
                   records'[r] = [records[r] EXCEPT !.status = records'[r].status]
             /\ (/\ last.op = last'.op /\ last.user = last'.user
                 /\ last.result = "ok" /\ now' = now)
                => records' = records]_vars

(* C18 witness: a student's dashboard refreshed again a ledger in which the
   student's record past due was already marked overdue *)
RefreshedAgain ==
    /\ last.op = "student_dashboard" /\ last.result = "ok"
    /\ last.view.counts[1] >= 1
    /\ \A r \in DOMAIN last.view.shown : last.view.shown[r] # "overdue"
    /\ \E r \in DOMAIN records :
          /\ records[r].user_id = last.user
          /\ records[r].status = "overdue"
          /\ now > records[r].due_date

(* C19: for every book, quantity - available_quantity is the number of its
   records that are borrowed or overdue, in every state reached by requests
   handled one after the other. *)
CopiesConserved ==
    \A b \in DOMAIN books :
        books[b].quantity - books[b].available_quantity
            = Cardinality(OpenRecords(b))

(* C19 witness: the copies still add up after a book with two open records,
   one of them overdue, had its quantity edited and a copy returned *)
ConservedThroughEdit ==
    /\ last.op = "return" /\ last.result = "ok"
    /\ \E b \in DOMAIN books :
          /\ records[last.arg].book_id = b
          /\ books[b].quantity = 1
          /\ books[b].available_quantity = 0
          /\ \E r \in OpenRecords(b) : records[r].status = "overdue"

(* C20: when two return requests for one record, the owner's and the
   librarian's, are handled as a check step and a write step each, in any
   order, the book's available_quantity is incremented at most once and never
   exceeds its quantity. *)
DoubleReturnWithinTotal ==
    \A b \in DOMAIN books :
        /\ books[b].available_quantity <= books[b].quantity
        /\ books[b].quantity - books[b].available_quantity
              = Cardinality(OpenRecords(b))

====
